---- MODULE Spec2Model ----
(***************************************************************************)
(* Model of pages/index.tsx of the Next.js preview-mode demo:               *)
(*   - getStaticProps: the preview resolver that reads "<snapshotId>.json"  *)
(*     from S3 and turns every read failure into props;                     *)
(*   - Home.share: the edit collector and the POST to /api/save, with the   *)
(*     hasSaveRequest guard and the then/then/catch/finally chain;          *)
(*   - the save endpoint and the object store that stand between the two.   *)
(*                                                                          *)
(* A JavaScript string is a sequence of symbols.  A symbol is one character *)
(* (DQ, BS, NL, "a", ...) or an opaque run of characters that needs no      *)
(* escaping ("title", "abc123", ".json").  A JavaScript object is the       *)
(* sequence of its <<key, value>> entries in insertion order, an array is   *)
(* the sequence of its elements, so JSON text and the value it denotes are  *)
(* different things and JSONstringify / JSONparse convert between them.     *)
(***************************************************************************)
EXTENDS Integers, Sequences, FiniteSets, TLC

\* ------------------------------------------------------------------ bounds
MaxEls   == 2    \* candidate elements of a document handed to the collector
MaxInflight == 2 \* save requests of the page under way at once
MaxEdits == 2    \* edits of a stored snapshot the page is rendered with

\* ----------------------------------------------------------------- symbols
DQ == "\""
BS == "\\"
NL == "\n"

\* ------------------------------------------------------- JavaScript values
Undefined == [t |-> "undefined", v |-> <<>>]
Null      == [t |-> "null", v |-> <<>>]
Str(s)    == [t |-> "string", v |-> s]

\* obj[key] for an object given as its entries; a later duplicate entry wins
RECURSIVE GetFrom(_, _, _)
GetFrom(obj, key, i) ==
  IF i = 0 THEN Undefined
  ELSE IF obj[i][1] = key THEN Str(obj[i][2])
  ELSE GetFrom(obj, key, i - 1)

Get(obj, key) == GetFrom(obj, key, Len(obj))

\* ------------------------------------------------------------ JSON.stringify
RECURSIVE Escape(_)
Escape(s) ==
  IF s = <<>> THEN <<>>
  ELSE LET c == Head(s) IN
       (IF c = DQ THEN <<BS, DQ>>
        ELSE IF c = BS THEN <<BS, BS>>
        ELSE IF c = NL THEN <<BS, "n">>
        ELSE <<c>>) \o Escape(Tail(s))

Quote(s) == <<DQ>> \o Escape(s) \o <<DQ>>

RECURSIVE StringifyEntries(_)
StringifyEntries(obj) ==
  IF obj = <<>> THEN <<>>
  ELSE Quote(obj[1][1]) \o <<":">> \o Quote(obj[1][2])
       \o (IF Len(obj) > 1 THEN <<",">> ELSE <<>>)
       \o StringifyEntries(Tail(obj))

StringifyObject(obj) == <<"{">> \o StringifyEntries(obj) \o <<"}">>

RECURSIVE StringifyElements(_)
StringifyElements(arr) ==
  IF arr = <<>> THEN <<>>
  ELSE StringifyObject(arr[1])
       \o (IF Len(arr) > 1 THEN <<",">> ELSE <<>>)
       \o StringifyElements(Tail(arr))

\* JSON.stringify of an array of objects whose values are strings
JSONstringify(arr) == <<"[">> \o StringifyElements(arr) \o <<"]">>

\* ---------------------------------------------------------------- JSON.parse
\* Every parser returns [ok, val, next]: next is the position after the value.
Fail == [ok |-> FALSE, val |-> <<>>, next |-> 0]
Ok(v, n) == [ok |-> TRUE, val |-> v, next |-> n]

RECURSIVE ParseChars(_, _, _)
ParseChars(s, i, acc) ==
  IF i > Len(s) THEN Fail
  ELSE IF s[i] = DQ THEN Ok(acc, i + 1)
  ELSE IF s[i] = NL THEN Fail
  ELSE IF s[i] = BS THEN
    IF i + 1 > Len(s) THEN Fail
    ELSE IF s[i + 1] \in {DQ, BS} THEN ParseChars(s, i + 2, Append(acc, s[i + 1]))
    ELSE IF s[i + 1] = "n" THEN ParseChars(s, i + 2, Append(acc, NL))
    ELSE Fail
  ELSE ParseChars(s, i + 1, Append(acc, s[i]))

ParseString(s, i) ==
  IF i <= Len(s) /\ s[i] = DQ THEN ParseChars(s, i + 1, <<>>) ELSE Fail

At(s, i, c) == i <= Len(s) /\ s[i] = c

\* Each step of the parser takes the result of the step before it as a
\* parameter, so a parsed value is computed once.
RECURSIVE ParseMembers(_, _, _)
AfterValue(s, obj, n) ==
  IF At(s, n, "}") THEN Ok(obj, n + 1)
  ELSE IF At(s, n, ",") THEN ParseMembers(s, n + 1, obj)
  ELSE Fail

WithValue(s, acc, k, v) ==
  IF ~v.ok THEN Fail ELSE AfterValue(s, Append(acc, <<k.val, v.val>>), v.next)

WithKey(s, acc, k) ==
  IF ~k.ok \/ ~At(s, k.next, ":") THEN Fail
  ELSE WithValue(s, acc, k, ParseString(s, k.next + 1))

ParseMembers(s, i, acc) == WithKey(s, acc, ParseString(s, i))

ParseObject(s, i) ==
  IF ~At(s, i, "{") THEN Fail
  ELSE IF At(s, i + 1, "}") THEN Ok(<<>>, i + 2)
  ELSE ParseMembers(s, i + 1, <<>>)

RECURSIVE ParseElements(_, _, _)
AfterElement(s, arr, n) ==
  IF At(s, n, "]") THEN Ok(arr, n + 1)
  ELSE IF At(s, n, ",") THEN ParseElements(s, n + 1, arr)
  ELSE Fail

WithElement(s, acc, o) ==
  IF ~o.ok THEN Fail ELSE AfterElement(s, Append(acc, o.val), o.next)

ParseElements(s, i, acc) == WithElement(s, acc, ParseObject(s, i))

ParseArray(s, i) ==
  IF ~At(s, i, "[") THEN Fail
  ELSE IF At(s, i + 1, "]") THEN Ok(<<>>, i + 2)
  ELSE ParseElements(s, i + 1, <<>>)

Parsed(s, kind, r) ==
  IF r.ok /\ r.next = Len(s) + 1
  THEN [ok |-> TRUE, kind |-> kind, val |-> r.val]
  ELSE [ok |-> FALSE, kind |-> "SyntaxError", val |-> <<>>]

\* JSON.parse restricted to the documents that occur here: an array of objects
\* or one object, all values strings.  ok = FALSE is the SyntaxError.
JSONparse(s) ==
  IF At(s, 1, "[") THEN Parsed(s, "array", ParseArray(s, 1))
  ELSE Parsed(s, "object", ParseObject(s, 1))

\* ------------------------------------------------------------ input domains
BaseText  == <<"a">>
Texts     == {BaseText, <<DQ, NL>>}
RegionIds == {<<"title">>, <<"title-3">>}
GenIds    == {<<"abc123">>, <<"k2">>}
AskIds    == {<<"abc123">>, <<"bad">>}
ErrTexts  == {<<"Internal", NL, "Error">>}
Keys      == {id \o <<".json">> : id \in GenIds \cup AskIds \cup {<<"undefined">>}}

\* The region ids and texts of the edits of a stored snapshot: two ids that
\* Content declares, one it does not
EditIds   == {<<"title">>, <<"title-3">>, <<"no-such-region">>}
EditTexts == {<<"Hello">>, <<DQ, "x">>}

\* One candidate element of the rendered document: whether its parent carries
\* an id attribute, parentNode.id ("" when it carries none), the id of its
\* nearest ancestor that carries one (region), whether the element has
\* contenteditable="true", and its innerText.
El(hasId, id, region, contenteditable, innerText) ==
  [hasId |-> hasId, id |-> id, region |-> region,
   contenteditable |-> contenteditable, innerText |-> innerText]

\* An element rendered as the only child of the element that carries its id
Region(id, contenteditable, innerText) == El(TRUE, id, Str(id), contenteditable, innerText)

Elements ==
  {Region(i, c, t) : i \in RegionIds, c \in BOOLEAN, t \in Texts}
  \cup {El(FALSE, <<>>, r, c, t) :
          r \in {Undefined, Str(<<"title">>)}, c \in BOOLEAN, t \in Texts}

\* Every document of at most MaxEls candidate elements
Docs == UNION {[1..n -> Elements] : n \in 0..MaxEls}

\* The documents the page is shared with in the whole-flow specification: no
\* editable region, one region whose text needs escaping, and two elements
\* under the same id.
PageDocs ==
  { <<>>,
    <<Region(<<"title">>, TRUE, <<DQ, BS, NL, "n">>)>>,
    <<Region(<<"title-3">>, TRUE, BaseText), Region(<<"title-3">>, TRUE, <<DQ>>)>> }

PreviewData(id) == [t |-> "object", v |-> << <<<<"snapshotId">>, id>> >>]

PreviewDatas ==
  {Undefined, [t |-> "object", v |-> <<>>]} \cup {PreviewData(id) : id \in AskIds}

\* The contexts getStaticProps is called with
Contexts ==
  {[preview |-> TRUE, previewData |-> pd] : pd \in PreviewDatas}
  \cup {[preview |-> FALSE, previewData |-> pd] : pd \in {Undefined, PreviewData(<<"abc123">>)}}

\* ------------------------------------------------------------- the S3 bucket
\* An object carries, next to its body, the edits of the save that wrote it
\* (history, read by no operation); edits of an object not written by a save
\* are the empty sequence.
Absent == [present |-> FALSE, body |-> <<>>, saved |-> FALSE, edits |-> <<>>]
Object(b) == [present |-> TRUE, body |-> b, saved |-> FALSE, edits |-> <<>>]
Saved(b, edits) == [present |-> TRUE, body |-> b, saved |-> TRUE, edits |-> edits]

NoResult == [ok |-> FALSE, statusCode |-> 0, Body |-> <<>>]

\* What s3.getObject(...).promise() can settle to for a key: the body of an
\* object that is there, 403 for one that is not (or is denied), or a failure
\* of the connection.
S3GetObject(bucket, key) ==
  (IF bucket[key].present
   THEN {[ok |-> TRUE, statusCode |-> 200, Body |-> bucket[key].body]}
   ELSE {})
  \cup {[ok |-> FALSE, statusCode |-> 403, Body |-> <<>>],
        [ok |-> FALSE, statusCode |-> 500, Body |-> <<>>]}

\* ------------------------------------------------------------ getStaticProps
MsgNotExist == "The requested preview edit does not exist!"
MsgS3Error  == "An error has occurred while connecting to S3. Please refresh the page to try again."

NoContents == [ok |-> FALSE, kind |-> "none", val |-> <<>>]

PropsOf(ks, isPreview, hasError, message, snapshotId, contents) ==
  [raised |-> FALSE, keys |-> ks, isPreview |-> isPreview, hasError |-> hasError,
   message |-> message, snapshotId |-> snapshotId, contents |-> contents]

Raised == [raised |-> TRUE, keys |-> {}, isPreview |-> FALSE, hasError |-> FALSE,
           message |-> "TypeError", snapshotId |-> Undefined, contents |-> NoContents]

NoProps == PropsOf({}, FALSE, FALSE, "", Undefined, NoContents)

\* const { snapshotId } = previewData: throws on undefined, else the property
Destructures(previewData) == previewData.t = "object"

SnapshotIdOf(previewData) == Get(previewData.v, <<"snapshotId">>)

\* The key written out for one snapshot instead of built from snapshotId
KeyOf_Fixed(snapshotId) == <<"abc123", ".json">>

\* `${snapshotId}.json`
KeyOf(snapshotId) ==
  (IF snapshotId.t = "undefined" THEN <<"undefined">> ELSE snapshotId.v) \o <<".json">>

\* getObjectKeys without the test of preview
getObjectKeys_NoPreviewTest(preview, previewData) ==
  IF Destructures(previewData)
  THEN <<KeyOf(SnapshotIdOf(previewData))>>
  ELSE <<>>

\* The keys getStaticProps asks the bucket for, in order
getObjectKeys(preview, previewData) ==
  IF preview /\ Destructures(previewData)
  THEN <<KeyOf(SnapshotIdOf(previewData))>>
  ELSE <<>>

\* catchMessage testing for 404, the status S3 gives when the bucket is listable
catchMessage_404(statusCode) ==
  IF statusCode = 404 THEN MsgNotExist ELSE MsgS3Error

\* catchMessage without the test of the status
catchMessage_NoTest(statusCode) == MsgS3Error

\* The message of the catch block for the error e it caught; a SyntaxError of
\* JSON.parse has no statusCode.
catchMessage(statusCode) ==
  IF statusCode = 403 THEN MsgNotExist ELSE MsgS3Error

\* propsOfRead with a catch that leaves isPreview set
propsOfRead_ErrorInPreview(snapshotId, res, contents) ==
  IF res.ok /\ contents.ok
  THEN PropsOf({"isPreview", "snapshotId", "contents"},
               TRUE, FALSE, "", snapshotId, contents)
  ELSE PropsOf({"isPreview", "hasError", "message"}, TRUE, TRUE,
               catchMessage(IF res.ok THEN 0 ELSE res.statusCode),
               Undefined, NoContents)

\* propsOfRead returning no contents
propsOfRead_NoContents(snapshotId, res, contents) ==
  IF res.ok /\ contents.ok
  THEN PropsOf({"isPreview", "snapshotId", "contents"},
               TRUE, FALSE, "", snapshotId, [contents EXCEPT !.val = <<>>])
  ELSE PropsOf({"isPreview", "hasError", "message"}, FALSE, TRUE,
               catchMessage(IF res.ok THEN 0 ELSE res.statusCode),
               Undefined, NoContents)

\* propsOfRead returning no snapshotId
propsOfRead_NoSnapshotId(snapshotId, res, contents) ==
  IF res.ok /\ contents.ok
  THEN PropsOf({"isPreview", "contents"}, TRUE, FALSE, "", Undefined, contents)
  ELSE PropsOf({"isPreview", "hasError", "message"}, FALSE, TRUE,
               catchMessage(IF res.ok THEN 0 ELSE res.statusCode),
               Undefined, NoContents)

\* propsOfRead with JSON.parse outside the try: a body that does not parse is
\* not caught
propsOfRead_ParseOutsideTry(snapshotId, res, contents) ==
  IF res.ok /\ ~contents.ok THEN Raised
  ELSE IF res.ok
  THEN PropsOf({"isPreview", "snapshotId", "contents"},
               TRUE, FALSE, "", snapshotId, contents)
  ELSE PropsOf({"isPreview", "hasError", "message"}, FALSE, TRUE,
               catchMessage(res.statusCode), Undefined, NoContents)

\* Lines 44-61: the body that was read is parsed and returned, and whatever
\* is thrown on the way becomes the error props.
propsOfRead(snapshotId, res, contents) ==
  IF res.ok /\ contents.ok
  THEN PropsOf({"isPreview", "snapshotId", "contents"},
               TRUE, FALSE, "", snapshotId, contents)
  ELSE PropsOf({"isPreview", "hasError", "message"}, FALSE, TRUE,
               catchMessage(IF res.ok THEN 0 ELSE res.statusCode),
               Undefined, NoContents)

\* The props returned (or Raised when the call throws), given what getObject
\* settled to; res is not looked at when no read is made.
getStaticProps(preview, previewData, res) ==
  IF preview THEN
    IF ~Destructures(previewData) THEN Raised
    ELSE propsOfRead(SnapshotIdOf(previewData), res, JSONparse(res.Body))
  ELSE PropsOf({"isPreview"}, FALSE, FALSE, "", Undefined, NoContents)

\* ------------------------------------------------------------- Home.share
\* document.querySelectorAll('[id] > [contenteditable=true]'), document order
Matches(e) == e.hasId /\ e.contenteditable
\* document.querySelector in its place: the first match only
querySelectorAll_First(d) ==
  IF SelectSeq(d, Matches) = <<>> THEN <<>> ELSE <<Head(SelectSeq(d, Matches))>>

querySelectorAll(d) == SelectSeq(d, Matches)

\* FieldEdit with the text left out of the object
FieldEdit_IdOnly(id, innerText) == << <<<<"id">>, id>> >>

FieldEdit(id, innerText) == << <<<<"id">>, id>>, <<<<"innerText">>, innerText>> >>

\* mapEls walking the elements backwards
mapEls_Reversed(els) ==
  [i \in 1..Len(els) |->
     FieldEdit(els[Len(els) + 1 - i].id, els[Len(els) + 1 - i].innerText)]

\* [].slice.call(els).map(({ parentNode: { id }, innerText }) => ({ id, innerText }))
mapEls(els) == [i \in 1..Len(els) |-> FieldEdit(els[i].id, els[i].innerText)]
persistContents(d) == mapEls(querySelectorAll(d))

\* share() without the guard of line 93
shareReturnsEarly_Never(ref) == FALSE

\* if (hasSaveRequest.current) return;
shareReturnsEarly(ref) == ref

ErrorOf(name, message) == [t |-> "error", name |-> name, message |-> message]
NoError == [t |-> "null", name |-> "", message |-> <<>>]

NoResp == [kind |-> "none", ok |-> FALSE, body |-> <<>>]
Http(ok, body) == [kind |-> "http", ok |-> ok, body |-> body]
Rejected == [kind |-> "reject", ok |-> FALSE, body |-> <<>>]

\* Lines 113-115 for the value res.json() resolved to, or the catch of lines
\* 116-118 when it rejected
jsonOutcome(json) ==
  IF ~json.ok
  THEN [set |-> "error", id |-> Undefined,
        err |-> ErrorOf("SyntaxError", <<"Unexpected token">>)]
  ELSE [set |-> "snapshot",
        id |-> IF json.kind = "object" THEN Get(json.val, <<"snapshotId">>) ELSE Undefined,
        err |-> NoError]

\* chainOutcome rejecting a non-2xx response with its status text instead of
\* its body
chainOutcome_StatusText(resp) ==
  IF resp.kind = "reject"
  THEN [set |-> "error", id |-> Undefined,
        err |-> ErrorOf("TypeError", <<"Failed to fetch">>)]
  ELSE IF resp.ok THEN jsonOutcome(JSONparse(resp.body))
  ELSE [set |-> "error", id |-> Undefined,
        err |-> ErrorOf("Error", <<"Internal Server Error">>)]

\* What the promise chain of lines 107-118 records for a response whose body
\* could be read: setSnapshotId(id) or setError(err).
chainOutcome(resp) ==
  IF resp.kind = "reject"
  THEN [set |-> "error", id |-> Undefined,
        err |-> ErrorOf("TypeError", <<"Failed to fetch">>)]
  ELSE IF resp.ok THEN jsonOutcome(JSONparse(resp.body))
  ELSE [set |-> "error", id |-> Undefined, err |-> ErrorOf("Error", resp.body)]

\* ------------------------------------------------------------------ Content
\* One <Malleable id=...>children</Malleable> of Content; children is the text
\* it declares (its first line stands for the whole of it)
Malleable(id, children) == [id |-> id, children |-> children]

\* The Malleable elements of Content in document order (lines 193-505).  The
\* eighteen from "title-3" of line 282 to "explanation-6-inspect" of line 484
\* are written inside the children of "explanation-1-inspect" of line 259.
Declared ==
  <<
     Malleable(<<"title">>, <<"CSE Skills Assessment">>),
     Malleable(<<"feature-1-emoji">>, <<"(emoji 1)">>),
     Malleable(<<"feature-1-text">>, <<"Marinette Clemente">>),
     Malleable(<<"feature-2-emoji">>, <<"(emoji 2)">>),
     Malleable(<<"feature-2-text">>, <<"xxxxxx">>),
     Malleable(<<"feature-3-emoji">>, <<"(emoji 3)">>),
     Malleable(<<"feature-3-text">>, <<"xxxxxx">>),
     Malleable(<<"title-2">>, <<"1. From this list, rank">>),
     Malleable(<<"explanation-1-inspect">>, <<"Five most favourite support tasks:">>),
     Malleable(<<"title-3">>, <<"2. What do you want to learn">>),
     Malleable(<<"explanation-2-inspect">>, <<"Technical skills">>),
     Malleable(<<"title-3">>, <<"3. Describe how you solved">>),
     Malleable(<<"explanation-3-inspect">>, <<"In a previous support role">>),
     Malleable(<<"title-3">>, <<"5. Imagine a customer writes in">>),
     Malleable(<<"explanation-4-inspect">>, <<"In the customer support world">>),
     Malleable(<<"title-3">>, <<"6. The customer from question 5">>),
     Malleable(<<"explanation-6-inspect">>, <<"Hi Customer,">>),
     Malleable(<<"title-3">>, <<"7. A customer writes in">>),
     Malleable(<<"explanation-6-inspect">>, <<"Hi Customer,">>),
     Malleable(<<"title-3">>, <<"8. A customer is creating a site">>),
     Malleable(<<"explanation-6-inspect">>, <<"Hi Customer,">>),
     Malleable(<<"title-3">>, <<"9. What do you think">>),
     Malleable(<<"explanation-6-inspect">>, <<"One of the most common problems">>),
     Malleable(<<"title-3">>, <<"10. How could we improve">>),
     Malleable(<<"explanation-6-inspect">>, <<"Provide additional resources">>),
     Malleable(<<"explanation-3">>, <<>>),
     Malleable(<<"explanation-4">>, <<>>)
  >>

\* The array of edits Content is given, as a value JSON.parse could return
ArrayOf(edits) == [ok |-> TRUE, kind |-> "array", val |-> edits]

\* const edits = props.isPreview ? props.contents : [] with the branches
\* giving props.contents in both cases
Home_edits_Contents(p) == p.contents

\* const edits = props.isPreview ? props.contents : []
Home_edits(p) == IF p.isPreview THEN p.contents ELSE ArrayOf(<<>>)

\* Overlay application is defined for a sequence of edits
OverlayDefined(edits) == edits.ok /\ edits.kind = "array"

\* The last edit of edits[1..i] for the region id, Undefined when there is none
RECURSIVE LastEditFor(_, _, _)
LastEditFor(edits, id, i) ==
  IF i = 0 THEN Undefined
  ELSE IF Get(edits[i], <<"id">>) = Str(id) THEN Get(edits[i], <<"innerText">>)
  ELSE LastEditFor(edits, id, i - 1)

TextOr(text, children) == IF text.t = "string" THEN text.v ELSE children

\* Overlay application for one region: the text of the last edit for its id,
\* or the base content when edits has none
EffectiveContent(id, children, edits) ==
  TextOr(LastEditFor(edits, id, Len(edits)), children)

\* What one Malleable renders: the element carrying the id, and as its child
\* the element that is editable when isActive and shows the effective content
MalleableEl(m, isActive, edits) ==
  Region(m.id, isActive, EffectiveContent(m.id, m.children, edits))

\* Content rendering a region for every edit as well
Content_RegionPerEdit(isEdit, edits) ==
  [k \in 1..Len(Declared) |-> MalleableEl(Declared[k], isEdit, edits)]
  \o [k \in 1..Len(edits) |->
        Region(Get(edits[k], <<"id">>).v, isEdit, Get(edits[k], <<"innerText">>).v)]

\* Content without edits={edits} on its Malleable elements
Content_WithoutEdits(isEdit, edits) ==
  [k \in 1..Len(Declared) |-> MalleableEl(Declared[k], isEdit, <<>>)]

\* Content({ isEdit, edits }): every declared Malleable with isActive={isEdit}
\* and edits={edits}, in document order
Content(isEdit, edits) ==
  [k \in 1..Len(Declared) |-> MalleableEl(Declared[k], isEdit, edits)]

\* ------------------------------------------------------- the save endpoint
\* The document written under "<id>.json" for a request body
SnapshotDocument(body) == JSONstringify(JSONparse(body).val)

\* The 2xx response body { snapshotId }
SaveResponse(id) == StringifyObject(<< <<<<"snapshotId">>, id>> >>)

\* 2xx bodies an intermediary can answer with instead of the endpoint's
GatewayBodies == {<<"{">>, <<"{", "}">>}

\* ------------------------------------------------------------------- state
VARIABLES
  store,             \* the bucket: key -> Absent or an object
  phase,             \* "none": no page yet; "built": getStaticProps has returned
                     \* (or thrown) and Home is not mounted yet; "mounted"
  ctx,               \* [preview, previewData] of the getStaticProps call, and
                     \* unsettled: how many requests of the page that was left
                     \* were still under way (history, read by no operation)
  s3Reads,           \* the keys that call asked the bucket for
  s3Result,          \* what getObject settled to in that call
  props,             \* what the call returned: the props of the page
  isEdit,
  hasSaveRequest,    \* the ref
  isSharingView,
  currentSnapshotId,
  currentError,
  inflight           \* the save requests under way, oldest first

vars == <<store, phase, ctx, s3Reads, s3Result, props, isEdit, hasSaveRequest,
          isSharingView, currentSnapshotId, currentError, inflight>>

homeVars == <<isEdit, hasSaveRequest, isSharingView, currentSnapshotId, currentError>>
callVars == <<ctx, s3Reads, s3Result>>

mounted == phase = "mounted"

\* An object somebody left in the bucket whose body is not JSON
GarbledBody == <<"[", "{", DQ, "id">>

NoCtx == [preview |-> FALSE, previewData |-> Undefined, unsettled |-> 0]

Init ==
  /\ store = [k \in Keys |-> IF k = <<"bad", ".json">> THEN Object(GarbledBody) ELSE Absent]
  /\ phase = "none"
  /\ ctx = NoCtx
  /\ s3Reads = <<>>
  /\ s3Result = NoResult
  /\ props = NoProps
  /\ isEdit = FALSE
  /\ hasSaveRequest = FALSE
  /\ isSharingView = FALSE
  /\ currentSnapshotId = Null
  /\ currentError = NoError
  /\ inflight = <<>>

Requests == 1..Len(inflight)

\* then/catch/finally callbacks run as microtasks: no user event, no
\* navigation and no network event is handled between them.
NoMicrotask == \A i \in Requests : inflight[i].stage # "settled"

\* The endpoint's handling of a request does not depend on the page, so it
\* is ordered before a navigation that follows the request: when the page is
\* left no request is waiting for the endpoint.
NoneUnanswered == \A i \in Requests : inflight[i].stage # "sent"

\* Home with the hasSaveRequest flag kept in a variable of the module, which
\* outlives the component
FreshHome_KeepsRef ==
  /\ isEdit' = FALSE
  /\ hasSaveRequest' = hasSaveRequest
  /\ isSharingView' = FALSE
  /\ currentSnapshotId' = Null
  /\ currentError' = NoError

\* The state of a Home just mounted (lines 70-87)
FreshHome ==
  /\ isEdit' = FALSE
  /\ hasSaveRequest' = FALSE
  /\ isSharingView' = FALSE
  /\ currentSnapshotId' = Null
  /\ currentError' = NoError

\* A request for the page: the page shown is left (the callbacks of its
\* requests find no Home to tell), and getStaticProps runs, reading the bucket
\* when it asks for a key.
GetStaticProps(preview, previewData) ==
  /\ NoMicrotask /\ NoneUnanswered
  /\ ctx' = [preview |-> preview, previewData |-> previewData,
             unsettled |-> Len(inflight)]
  /\ s3Reads' = getObjectKeys(preview, previewData)
  /\ \E res \in (IF s3Reads' = <<>> THEN {NoResult} ELSE S3GetObject(store, s3Reads'[1])) :
       /\ s3Result' = res
       /\ props' = getStaticProps(preview, previewData, res)
  /\ phase' = "built"
  /\ FreshHome
  /\ inflight' = <<>>
  /\ UNCHANGED store

\* Home(props) mounts; the locals of the getStaticProps call are gone.
Mount ==
  /\ phase = "built" /\ ~props.raised
  /\ phase' = "mounted"
  /\ ctx' = NoCtx
  /\ s3Reads' = <<>>
  /\ s3Result' = NoResult
  /\ UNCHANGED <<store, props, homeVars, inflight>>

toggleEdit ==
  /\ NoMicrotask /\ mounted
  /\ isEdit' = ~isEdit
  /\ UNCHANGED <<store, phase, callVars, props, hasSaveRequest, isSharingView,
                 currentSnapshotId, currentError, inflight>>

\* Content rendered on the error page as well
Renders_Always(d) == TRUE

\* Content is rendered only when props.hasError is not set
Renders(d) == props.hasError => d = <<>>

\* swallowed: a share() call returned early while this request was under way
Request(d) ==
  [stage |-> "sent", swallowed |-> FALSE, document |-> d,
   persistContents |-> persistContents(d),
   body |-> JSONstringify(persistContents(d)),
   resp |-> NoResp]

\* share(), clicked in the Snapshot bar while the rendered document is d,
\* when the guard lets it through
ShareSend(d) ==
  /\ NoMicrotask /\ mounted /\ isEdit
  /\ Len(inflight) < MaxInflight
  /\ Renders(d)
  /\ ~shareReturnsEarly(hasSaveRequest)
  /\ hasSaveRequest' = TRUE
  /\ isSharingView' = TRUE
  /\ inflight' = Append(inflight, Request(d))
  /\ UNCHANGED <<store, phase, callVars, props, isEdit, currentSnapshotId, currentError>>

\* share() when the guard returns early
ShareBlocked ==
  /\ NoMicrotask /\ mounted /\ isEdit
  /\ shareReturnsEarly(hasSaveRequest)
  /\ inflight' = [i \in Requests |-> [inflight[i] EXCEPT !.swallowed = TRUE]]
  /\ UNCHANGED <<store, phase, callVars, props, homeVars>>

Without(i) ==
  [j \in 1..Len(inflight) - 1 |-> IF j < i THEN inflight[j] ELSE inflight[j + 1]]

Remove(i) == inflight' = Without(i)

\* The answer to request i, waiting for the callbacks of lines 107-121
Answer(i, resp) ==
  inflight' = [inflight EXCEPT ![i].stage = "responded", ![i].resp = resp]

\* POST /api/save writing under an id that is in use
SaveOk_Overwrites(i, id) ==
  /\ NoMicrotask
  /\ inflight[i].stage = "sent"
  /\ JSONparse(inflight[i].body).ok
  /\ store' = [store EXCEPT ![id \o <<".json">>] =
                 Saved(SnapshotDocument(inflight[i].body), inflight[i].persistContents)]
  /\ Answer(i, Http(TRUE, SaveResponse(id)))
  /\ UNCHANGED <<phase, callVars, props, homeVars>>

\* POST /api/save handled: a fresh id, one write of "<id>.json", 2xx { snapshotId }
SaveOk(i, id) ==
  /\ NoMicrotask
  /\ inflight[i].stage = "sent"
  /\ JSONparse(inflight[i].body).ok
  /\ ~store[id \o <<".json">>].present
  /\ store' = [store EXCEPT ![id \o <<".json">>] =
                 Saved(SnapshotDocument(inflight[i].body), inflight[i].persistContents)]
  /\ Answer(i, Http(TRUE, SaveResponse(id)))
  /\ UNCHANGED <<phase, callVars, props, homeVars>>

\* POST /api/save failed: nothing written, non-2xx with a plain-text body
SaveFail(i, text) ==
  /\ NoMicrotask
  /\ inflight[i].stage = "sent"
  /\ Answer(i, Http(FALSE, text))
  /\ UNCHANGED <<store, phase, callVars, props, homeVars>>

\* A 2xx that does not come from the endpoint
GatewayRespond(i, b) ==
  /\ NoMicrotask
  /\ inflight[i].stage = "sent"
  /\ Answer(i, Http(TRUE, b))
  /\ UNCHANGED <<store, phase, callVars, props, homeVars>>

\* The connection fails before a response has been read: fetch() rejects
FetchReject(i) ==
  /\ NoMicrotask
  /\ inflight[i].stage \in {"sent", "responded"} /\ inflight[i].resp.kind # "reject"
  /\ Answer(i, Rejected)
  /\ UNCHANGED <<store, phase, callVars, props, homeVars>>

\* Setters that clear the other outcome when they record one
Record_ClearsOther(o) ==
  /\ currentSnapshotId' = IF o.set = "snapshot" THEN o.id ELSE Null
  /\ currentError' = IF o.set = "error" THEN o.err ELSE NoError

\* The state setters called by the chain with outcome o
Record(o) ==
  /\ currentSnapshotId' = IF o.set = "snapshot" THEN o.id ELSE currentSnapshotId
  /\ currentError' = IF o.set = "error" THEN o.err ELSE currentError

\* The chain with a catch that sends the request again
Settle_Retry(i) ==
  /\ NoMicrotask
  /\ inflight[i].stage = "responded"
  /\ Record(chainOutcome(inflight[i].resp))
  /\ inflight' =
       IF chainOutcome(inflight[i].resp).set = "error"
       THEN Append([inflight EXCEPT ![i].stage = "settled"], Request(inflight[i].document))
       ELSE [inflight EXCEPT ![i].stage = "settled"]
  /\ UNCHANGED <<store, phase, callVars, props, isEdit, hasSaveRequest, isSharingView>>

\* The response (or rejection) reaches the page: lines 107-118 run.
Settle(i) ==
  /\ NoMicrotask
  /\ inflight[i].stage = "responded"
  /\ Record(chainOutcome(inflight[i].resp))
  /\ inflight' = [inflight EXCEPT ![i].stage = "settled"]
  /\ UNCHANGED <<store, phase, callVars, props, isEdit, hasSaveRequest, isSharingView>>

\* res.text() of a non-2xx response rejects inside the async executor of line
\* 109: the promise it was to reject never settles and the chain stops there.
TextReadFails(i) ==
  /\ NoMicrotask
  /\ inflight[i].stage = "responded"
  /\ inflight[i].resp.kind = "http" /\ ~inflight[i].resp.ok
  /\ inflight' = [inflight EXCEPT ![i].stage = "hung"]
  /\ UNCHANGED <<store, phase, callVars, props, homeVars>>

\* setSharing(sharing), lines 79-85
setSharing(sharing) ==
  /\ hasSaveRequest' = sharing
  /\ isSharingView' = sharing

\* .finally(() => setSharing(false))
Finally(i) ==
  /\ inflight[i].stage = "settled"
  /\ setSharing(FALSE)
  /\ Remove(i)
  /\ UNCHANGED <<store, phase, callVars, props, isEdit, currentSnapshotId, currentError>>

\* {currentError && <ErrorDialog ...>}: the dialog shows currentError.message
ErrorDialogShown == mounted /\ currentError # NoError

\* {currentSnapshotId && <ShareLinkDialog ...>}: shown for a non-empty string
ShareLinkDialogShown ==
  mounted /\ currentSnapshotId.t = "string" /\ currentSnapshotId.v # <<>>

\* The exit link shown only for a snapshot that was loaded
PreviewLinkShown_LoadedOnly(p) == p.isPreview

\* {(props.isPreview || props.hasError) && <aside>Preview Mode</aside>}
PreviewLinkShown(p) == p.isPreview \/ p.hasError

\* ErrorDialog onExit
onClearError ==
  /\ NoMicrotask /\ mounted
  /\ currentError # NoError
  /\ currentError' = NoError
  /\ UNCHANGED <<store, phase, callVars, props, isEdit, hasSaveRequest, isSharingView,
                 currentSnapshotId, inflight>>

\* ShareLinkDialog onExit
clearSnapshot ==
  /\ NoMicrotask /\ mounted
  /\ currentSnapshotId.t = "string"
  /\ currentSnapshotId' = Null
  /\ UNCHANGED <<store, phase, callVars, props, isEdit, hasSaveRequest, isSharingView,
                 currentError, inflight>>

Next ==
  \/ \E c \in Contexts : GetStaticProps(c.preview, c.previewData)
  \/ Mount
  \/ toggleEdit
  \/ \E d \in PageDocs : ShareSend(d)
  \/ ShareBlocked
  \/ \E i \in Requests, id \in GenIds : SaveOk(i, id)
  \/ \E i \in Requests, text \in ErrTexts : SaveFail(i, text)
  \/ \E i \in Requests, b \in GatewayBodies : GatewayRespond(i, b)
  \/ \E i \in Requests : FetchReject(i)
  \/ \E i \in Requests : Settle(i)
  \/ \E i \in Requests : TextReadFails(i)
  \/ \E i \in Requests : Finally(i)
  \/ onClearError
  \/ clearSnapshot

Spec == Init /\ [][Next]_vars

\* No request waits for ever: the endpoint or the transport answers it, and
\* the callbacks of a settled promise are run.  Respond is enabled exactly
\* while a request waits for its answer, and every answer, the 2xx of SaveOk
\* included, ends the wait.
Respond ==
  \E i \in Requests :
    \/ \E text \in ErrTexts : SaveFail(i, text)
    \/ \E b \in GatewayBodies : GatewayRespond(i, b)
    \/ inflight[i].stage = "sent" /\ FetchReject(i)

Callbacks == \E i \in Requests : Settle(i) \/ Finally(i)

\* One mounted page, never left, under that fairness
InitPage ==
  /\ store = [k \in Keys |-> Absent]
  /\ phase = "mounted"
  /\ ctx = NoCtx
  /\ s3Reads = <<>>
  /\ s3Result = NoResult
  /\ props = getStaticProps(FALSE, Undefined, NoResult)
  /\ isEdit = FALSE
  /\ hasSaveRequest = FALSE
  /\ isSharingView = FALSE
  /\ currentSnapshotId = Null
  /\ currentError = NoError
  /\ inflight = <<>>

NextPage ==
  \/ toggleEdit
  \/ \E d \in PageDocs : ShareSend(d)
  \/ ShareBlocked
  \/ \E i \in Requests, id \in GenIds : SaveOk(i, id)
  \/ \E i \in Requests, text \in ErrTexts : SaveFail(i, text)
  \/ \E i \in Requests, b \in GatewayBodies : GatewayRespond(i, b)
  \/ \E i \in Requests : FetchReject(i)
  \/ \E i \in Requests : Settle(i)
  \/ \E i \in Requests : TextReadFails(i)
  \/ \E i \in Requests : Finally(i)
  \/ onClearError
  \/ clearSnapshot

SpecFair == InitPage /\ [][NextPage]_vars /\ WF_vars(Respond) /\ WF_vars(Callbacks)

\* The collector on every document of at most MaxEls elements: a mounted page
\* in edit mode that is shared.
InitCollect ==
  /\ store = [k \in Keys |-> Absent]
  /\ phase = "mounted"
  /\ ctx = NoCtx
  /\ s3Reads = <<>>
  /\ s3Result = NoResult
  /\ props = getStaticProps(FALSE, Undefined, NoResult)
  /\ isEdit = TRUE
  /\ hasSaveRequest = FALSE
  /\ isSharingView = FALSE
  /\ currentSnapshotId = Null
  /\ currentError = NoError
  /\ inflight = <<>>

NextCollect == \E d \in Docs : ShareSend(d)

SpecCollect == InitCollect /\ [][NextCollect]_vars

\* Lines 155-173: the error panel, which has no editable region, or Content
\* with the edits of line 124
ContentShown(p) == ~p.hasError /\ OverlayDefined(Home_edits(p))

Document(p, edit) ==
  IF ContentShown(p) THEN Content(edit, Home_edits(p).val) ELSE <<>>

\* The snapshots the bucket may hold under "abc123.json"
OverlayEdits ==
  UNION {[1..n -> {FieldEdit(i, t) : i \in EditIds, t \in EditTexts}] : n \in 0..MaxEdits}

ContentObjects == {Absent} \cup {Object(JSONstringify(e)) : e \in OverlayEdits}

ContentContexts ==
  {[preview |-> FALSE, previewData |-> Undefined],
   [preview |-> TRUE, previewData |-> PreviewData(<<"abc123">>)]}

\* Content as the page shows it: a page built by getStaticProps from a bucket
\* holding any of ContentObjects and mounted, its edit mode toggled, and the
\* document it shows shared.
InitContent ==
  /\ \E o \in ContentObjects :
       store = [k \in Keys |-> IF k = <<"abc123", ".json">> THEN o ELSE Absent]
  /\ phase = "mounted"
  /\ ctx = NoCtx
  /\ s3Reads = <<>>
  /\ s3Result = NoResult
  /\ \E c \in ContentContexts :
       \E res \in (IF c.preview THEN S3GetObject(store, <<"abc123", ".json">>)
                    ELSE {NoResult}) :
         props = getStaticProps(c.preview, c.previewData, res)
  /\ isEdit = FALSE
  /\ hasSaveRequest = FALSE
  /\ isSharingView = FALSE
  /\ currentSnapshotId = Null
  /\ currentError = NoError
  /\ inflight = <<>>

NextContent ==
  \/ toggleEdit
  \/ ShareSend(Document(props, isEdit))

SpecContent == InitContent /\ [][NextContent]_vars

\* -------------------------------------------------------------- properties
\* A getStaticProps call has just returned or thrown
Built == phase = "built"

\* The call asked the bucket for the key of its context's snapshot id
ReadAsked == Built /\ ctx.preview /\ Destructures(ctx.previewData)

ErrorProps(message) ==
  PropsOf({"isPreview", "hasError", "message"}, FALSE, TRUE, message, Undefined, NoContents)

\* C1: getStaticProps never raises: for every context, a missing previewData
\* or snapshotId included, and every outcome of the read, it returns props.
C1_NeverRaises == Built => ~props.raised

\* C2: with preview false getStaticProps returns exactly { isPreview: false }
\* and asks the bucket for nothing, whatever the bucket holds and whatever
\* snapshot id comes with the request.
C2_InactiveNoRead ==
  (Built /\ ~ctx.preview) =>
    /\ ~props.raised
    /\ props.keys = {"isPreview"}
    /\ props.isPreview = FALSE
    /\ s3Reads = <<>>

C2_Witness ==
  /\ Built /\ ~ctx.preview
  /\ ctx.previewData = PreviewData(<<"abc123">>)
  /\ store[<<"abc123", ".json">>].present
  /\ props.keys = {"isPreview"}

\* C3: a share() call made while a save is pending is a no-op: at most one
\* save request of the page is under way at any time, and a share() call
\* made while hasSaveRequest is set sends nothing and changes no state.
C3_SingleSave ==
  /\ [](Len(inflight) <= 1)
  /\ [][(hasSaveRequest /\ (ShareBlocked \/ \E d \in PageDocs : ShareSend(d)))
         => /\ Len(inflight') = Len(inflight)
            /\ \A i \in Requests :
                 [inflight'[i] EXCEPT !.swallowed = FALSE]
                   = [inflight[i] EXCEPT !.swallowed = FALSE]
            /\ UNCHANGED <<store, phase, callVars, props, homeVars>>]_vars

C3_Witness ==
  /\ Len(inflight) = 1
  /\ inflight[1].stage = "sent"
  /\ inflight[1].swallowed
  /\ hasSaveRequest

\* The id -> text pairs of a sequence of edits
Pairs(edits) ==
  {<<Get(edits[i], <<"id">>), Get(edits[i], <<"innerText">>)>> : i \in 1..Len(edits)}

\* C4: round trip: when getStaticProps reads the snapshot a save wrote, for
\* the id that save returned, it yields isPreview = true with contents equal,
\* as a set of id -> text pairs, to the edits that were saved; empty or not.
C4_RoundTrip ==
  (ReadAsked /\ s3Result.ok /\ store[s3Reads[1]].saved) =>
    /\ props.isPreview
    /\ props.contents.ok /\ props.contents.kind = "array"
    /\ Pairs(props.contents.val) = Pairs(store[s3Reads[1]].edits)
    /\ Len(props.contents.val) = Len(store[s3Reads[1]].edits)

C4_Witness ==
  /\ ReadAsked /\ s3Result.ok /\ store[s3Reads[1]].saved
  /\ props.isPreview
  /\ Pairs(props.contents.val) = {<<Str(<<"title">>), Str(<<DQ, BS, NL, "n">>)>>}

\* C5: with preview true, when the read of "<snapshotId>.json" succeeds (and
\* the body is JSON), getStaticProps returns { isPreview: true, snapshotId,
\* contents }: the snapshot id of the context and the parsed stored document.
C5_ReadSuccess ==
  (ReadAsked /\ s3Result.ok /\ JSONparse(s3Result.Body).ok) =>
    /\ s3Reads = <<SnapshotIdOf(ctx.previewData).v \o <<".json">> >>
    /\ s3Result.Body = store[s3Reads[1]].body
    /\ props.keys = {"isPreview", "snapshotId", "contents"}
    /\ props.isPreview
    /\ props.snapshotId = SnapshotIdOf(ctx.previewData)
    /\ props.contents = JSONparse(store[s3Reads[1]].body)

C5_Witness ==
  /\ ReadAsked /\ s3Result.ok
  /\ props.isPreview
  /\ props.snapshotId = Str(<<"abc123">>)
  /\ Len(props.contents.val) = 2

\* The result the read of a key that was never written must give
NeverWritten == ReadAsked /\ ~store[s3Reads[1]].present /\ s3Result.statusCode = 403

\* C6 as stated: the read of a snapshot id that was never written (the store
\* answers 403) returns { isPreview: false, hasError: true, message:
\* "requested preview edit does not exist" }.
C6_Original ==
  NeverWritten => props = ErrorProps("requested preview edit does not exist")

\* C6 as amended: the read of a snapshot id that was never written (the store
\* answers 403) returns { isPreview: false, hasError: true, message: "The
\* requested preview edit does not exist!" }.
C6_NotFound ==
  NeverWritten => props = ErrorProps("The requested preview edit does not exist!")

C6_Witness ==
  /\ NeverWritten
  /\ ctx.previewData = PreviewData(<<"abc123">>)
  /\ props.hasError /\ ~props.isPreview

\* The read failed otherwise than by 403: the connection, or a body that is
\* not JSON
OtherFailure ==
  /\ ReadAsked
  /\ \/ ~s3Result.ok /\ s3Result.statusCode # 403
     \/ s3Result.ok /\ ~JSONparse(s3Result.Body).ok

\* C7 as stated: a read that fails for any other reason returns { isPreview:
\* false, hasError: true, message: "storage connectivity error, retry by
\* reloading" }.
C7_Original ==
  OtherFailure => props = ErrorProps("storage connectivity error, retry by reloading")

\* C7 as amended: a read that fails for any other reason (the connection, or
\* a stored body that cannot be parsed) returns { isPreview: false, hasError:
\* true, message: "An error has occurred while connecting to S3. Please
\* refresh the page to try again." }.
C7_OtherFailure ==
  OtherFailure =>
    props = ErrorProps("An error has occurred while connecting to S3. Please refresh the page to try again.")

C7_Witness ==
  /\ ReadAsked /\ s3Result.ok /\ ~JSONparse(s3Result.Body).ok
  /\ props.hasError /\ ~props.isPreview

\* Request i was answered with a non-2xx status
NonOk(i) == inflight[i].resp.kind = "http" /\ ~inflight[i].resp.ok

\* C8: when the save endpoint answers non-2xx and the page has read the text
\* of the response, the save fails: the chain sets no snapshot id, the error
\* it records carries the response's text verbatim and is shown in the error
\* dialog, it is recorded once, by the catch (the finally that follows leaves
\* it alone), and a dialog that is shown can be dismissed.
C8_NonOkSurfaced ==
  /\ []((ErrorDialogShown /\ NoMicrotask) => ENABLED onClearError)
  /\ [](\A i \in Requests :
          (inflight[i].stage = "settled" /\ NonOk(i)) =>
            /\ ErrorDialogShown
            /\ currentError.name = "Error"
            /\ currentError.message = inflight[i].resp.body)
  /\ [][\A i \in Requests :
          /\ (NonOk(i) /\ inflight[i].stage = "responded" /\ Len(inflight') = Len(inflight)
                /\ inflight'[i].stage = "settled")
               => currentSnapshotId' = currentSnapshotId
          /\ (NonOk(i) /\ inflight[i].stage = "settled" /\ phase' = phase)
               => (currentError' = currentError /\ currentSnapshotId' = currentSnapshotId)]_vars

C8_Witness ==
  \E i \in Requests :
    /\ inflight[i].stage = "settled" /\ NonOk(i)
    /\ currentError.message = <<"Internal", NL, "Error">>
    /\ currentSnapshotId = Null

\* The editable elements of a document and the region each belongs to
Editable(d) == {j \in 1..Len(d) : d[j].contenteditable}
RegionsOf(d) == {d[j].region : j \in Editable(d)}

\* A document as the page renders it: every editable element is the child of
\* the element that carries its region's id, one editable element per region.
WellFormed(d) ==
  /\ \A j \in Editable(d) : d[j].hasId /\ d[j].region = Str(d[j].id)
  /\ \A j, k \in Editable(d) : d[j].region = d[k].region => j = k

IdOf(edit) == Get(edit, <<"id">>)
TextOf(edit) == Get(edit, <<"innerText">>)

Under(d, id) == SelectSeq(d, LAMBDA e : e.hasId /\ e.contenteditable /\ e.id = id)
EditsFor(edits, id) == SelectSeq(edits, LAMBDA e : IdOf(e) = Str(id))

Duplicated(d, id) == Len(Under(d, id)) >= 2

\* C10 as stated: when two editable elements yield the same region id the
\* collector's output holds a single FieldEdit for that id, with the text of
\* the last such element.
C10_Original ==
  \A i \in Requests : \A id \in RegionIds :
    Duplicated(inflight[i].document, id) =>
      /\ Len(EditsFor(inflight[i].persistContents, id)) = 1
      /\ TextOf(EditsFor(inflight[i].persistContents, id)[1])
           = Str(Under(inflight[i].document, id)[Len(Under(inflight[i].document, id))].innerText)

\* C10 as amended: when two editable elements yield the same region id the
\* collector's output holds one FieldEdit for each of them, in document
\* order, each with the text of its own element; the last FieldEdit for that
\* id carries the text of the last such element.
C10_KeepsDuplicates ==
  \A i \in Requests : \A id \in RegionIds :
    LET els == Under(inflight[i].document, id)
        edits == EditsFor(inflight[i].persistContents, id)
    IN Duplicated(inflight[i].document, id) =>
         /\ Len(edits) = Len(els)
         /\ \A k \in 1..Len(els) : TextOf(edits[k]) = Str(els[k].innerText)

C10_Witness ==
  \E i \in Requests :
    /\ Duplicated(inflight[i].document, <<"title-3">>)
    /\ Len(EditsFor(inflight[i].persistContents, <<"title-3">>)) = 2
    /\ TextOf(inflight[i].persistContents[1]) # TextOf(inflight[i].persistContents[2])

\* C11: every snapshot share() sends for the page rendered by Content has
\* pairwise distinct FieldEdit ids: the regions Content declares have
\* pairwise distinct ids.
C11_DistinctIds ==
  \A i \in Requests :
    \A j, k \in 1..Len(inflight[i].persistContents) :
      IdOf(inflight[i].persistContents[j]) = IdOf(inflight[i].persistContents[k]) => j = k

\* The value JSON.parse gives for the body of request i, and the field names
\* of one of its entries
BodyOf(i) == JSONparse(inflight[i].body)
FieldsOf(e) == {e[j][1] : j \in 1..Len(e)}

\* One entry of the body, against the element it was collected from
TextEntry(e) ==
  /\ FieldsOf(e) = {<<"id">>, <<"text">>}
  /\ Get(e, <<"id">>).v # <<>>

InnerTextEntry(e, el) ==
  /\ Len(e) = 2
  /\ FieldsOf(e) = {<<"id">>, <<"innerText">>}
  /\ Get(e, <<"id">>).t = "string"
  /\ Get(e, <<"id">>).v # <<>>
  /\ Get(e, <<"innerText">>) = Str(el.innerText)

\* The parsed body is an array with one entry per collected element
ArrayFor(json, els) ==
  json.ok /\ json.kind = "array" /\ Len(json.val) = Len(els)

\* C12 as stated: every entry of the JSON body share() POSTs is a FieldEdit
\* { id, text }: id a non-empty string, the region's content under the field
\* named text.
C12_Original ==
  \A i \in Requests :
    /\ ArrayFor(BodyOf(i), querySelectorAll(inflight[i].document))
    /\ \A k \in 1..Len(inflight[i].persistContents) :
         TextEntry(BodyOf(i).val[k])

\* Every entry of the array is an object { id, innerText } for its element
AllInnerText(val, els) ==
  \A k \in 1..Len(els) : InnerTextEntry(val[k], els[k])

BodyInnerText(json, els) == ArrayFor(json, els) /\ AllInnerText(json.val, els)

\* C12 as amended: every entry of the JSON body share() POSTs is an object
\* { id, innerText }: id a non-empty string, the region's content a string
\* under the field named innerText, and no other field.
C12_IdInnerText ==
  \A i \in Requests :
    BodyInnerText(BodyOf(i), querySelectorAll(inflight[i].document))

C12_Witness ==
  \E i \in Requests :
    /\ Len(inflight[i].persistContents) = Len(Declared)
    /\ Get(BodyOf(i).val[1], <<"innerText">>) = Str(<<DQ, "x">>)

\* The document shows every declared region, in order, with its base content
BaseShown(d) ==
  /\ Len(d) = Len(Declared)
  /\ \A k \in 1..Len(Declared) :
       d[k].id = Declared[k].id /\ d[k].innerText = Declared[k].children

\* C13: overlay identity: Content given an empty sequence of edits shows the
\* base content of every region; in particular a page whose props have
\* isPreview = false and no hasError shows every region at base content.
C13_OverlayIdentity ==
  /\ (mounted /\ ~props.isPreview /\ ~props.hasError) =>
       (ContentShown(props) /\ BaseShown(Document(props, isEdit)))
  /\ (mounted /\ ContentShown(props) /\ Home_edits(props).val = <<>>) =>
       BaseShown(Document(props, isEdit))

C13_Witness ==
  /\ mounted /\ props.isPreview /\ isEdit
  /\ props.contents.val = <<>>
  /\ BaseShown(Document(props, isEdit))

\* An edit for a region id that Content declares
Known(e) == \E k \in 1..Len(Declared) : Str(Declared[k].id) = IdOf(e)

\* C14: overlay application ignores an edit whose id is no region id of the
\* base content: Content is shown (no failure), with exactly the declared
\* regions (none added), each with the content it has without that edit.
C14_UnknownIgnored ==
  (mounted /\ props.isPreview /\ \E j \in 1..Len(props.contents.val) : ~Known(props.contents.val[j])) =>
    /\ ContentShown(props)
    /\ Len(Document(props, isEdit)) = Len(Declared)
    /\ \A k \in 1..Len(Declared) :
         /\ Document(props, isEdit)[k].id = Declared[k].id
         /\ Document(props, isEdit)[k].innerText
              = EffectiveContent(Declared[k].id, Declared[k].children,
                                 SelectSeq(props.contents.val, Known))

C14_Witness ==
  /\ mounted /\ props.isPreview /\ isEdit
  /\ Len(props.contents.val) = 2
  /\ ~Known(props.contents.val[1]) /\ Known(props.contents.val[2])
  /\ Len(Document(props, isEdit)) = Len(Declared)

\* The positions of edits that are for the region id
EditsOf(edits, id) == {j \in 1..Len(edits) : IdOf(edits[j]) = Str(id)}
Last(S) == CHOOSE j \in S : \A k \in S : k <= j

DistinctEditIds(edits) ==
  \A j, k \in 1..Len(edits) : IdOf(edits[j]) = IdOf(edits[k]) => j = k

C17_NoRetry ==
  /\ [](Len(s3Reads) <= 1)
  /\ [][Len(inflight') > Len(inflight) =>
          /\ Len(inflight') = Len(inflight) + 1
          /\ \E d \in PageDocs : ShareSend(d)]_vars

C17_Witness ==
  /\ mounted /\ inflight = <<>> /\ ~hasSaveRequest
  /\ currentError = ErrorOf("Error", <<"Internal", NL, "Error">>)
  /\ \A k \in Keys : ~store[k].saved

\* C18: the read path makes no difference between an object that is missing
\* and one that is there but denied: whenever the read is answered 403 the
\* props are the same "does not exist" error, with nothing of the object in
\* them, whether or not the bucket holds the key.
C18_MissingOrDenied ==
  (ReadAsked /\ s3Result.statusCode = 403) =>
    /\ props = ErrorProps(MsgNotExist)
    /\ props.snapshotId = Undefined /\ props.contents = NoContents

C18_Witness ==
  /\ ReadAsked /\ s3Result.statusCode = 403
  /\ store[s3Reads[1]].saved
  /\ props.hasError

C20_GuardReleased == hasSaveRequest ~> ~hasSaveRequest

\* C21: every save attempt that settles records one outcome, never neither:
\* when its callbacks have run, and before the pending guard is released,
\* either currentSnapshotId is a non-empty id and the share-link dialog is
\* shown, or currentError is set and the error dialog is shown.
C21_OneOutcome ==
  \A i \in Requests :
    inflight[i].stage = "settled" =>
      /\ hasSaveRequest /\ isSharingView
      /\ ShareLinkDialogShown \/ ErrorDialogShown

\* Request i was answered 2xx with a body that parses as JSON
Answered2xx(i) ==
  /\ inflight[i].resp.kind = "http" /\ inflight[i].resp.ok
  /\ JSONparse(inflight[i].resp.body).ok

\* The snapshotId member of a parsed response body
SnapshotIdIn(json) ==
  IF json.kind = "object" THEN Get(json.val, <<"snapshotId">>) ELSE Undefined

\* C22: a successful save sets currentSnapshotId and leaves currentError as it
\* was, a failed save sets currentError and leaves currentSnapshotId as it
\* was, and starting a save changes neither; so an error that was not
\* dismissed and the share link of another attempt are shown together.
C22_OutcomeFrames ==
  [][/\ (\E d \in PageDocs : ShareSend(d)) =>
          (currentSnapshotId' = currentSnapshotId /\ currentError' = currentError)
     /\ \A i \in Requests :
          (inflight[i].stage = "responded" /\ Len(inflight') = Len(inflight)
             /\ inflight'[i].stage = "settled") =>
            /\ Answered2xx(i) =>
                 /\ currentSnapshotId' = SnapshotIdIn(JSONparse(inflight[i].resp.body))
                 /\ currentError' = currentError
            /\ ~Answered2xx(i) =>
                 /\ currentError' # NoError
                 /\ currentSnapshotId' = currentSnapshotId]_vars

C22_Witness ==
  /\ ErrorDialogShown /\ ShareLinkDialogShown
  /\ currentError = ErrorOf("Error", <<"Internal", NL, "Error">>)
  /\ inflight = <<>>

\* C23: in every result of getStaticProps hasError = true comes with
\* isPreview = false and a message, and isPreview = true comes with a
\* snapshotId and contents and without hasError; so no page shows both the
\* error panel and Content with edits.
C23_PropsShape ==
  (phase # "none" /\ ~props.raised) =>
    /\ props.hasError =>
         /\ ~props.isPreview
         /\ "message" \in props.keys /\ props.message # ""
         /\ ~ContentShown(props)
    /\ props.isPreview =>
         /\ {"snapshotId", "contents"} \subseteq props.keys
         /\ props.snapshotId.t = "string"
         /\ props.contents.ok
         /\ "hasError" \notin props.keys /\ ~props.hasError
    /\ ~ContentShown(props) \/ ~props.hasError
    /\ (~props.isPreview /\ ContentShown(props)) => Home_edits(props).val = <<>>

C23_Witness ==
  /\ mounted /\ props.hasError
  /\ props.message = MsgS3Error
  /\ Document(props, isEdit) = <<>>

\* C24: a page built for a request in preview mode shows the "Preview Mode"
\* exit link, when the snapshot was loaded and when the read failed; a page
\* built for a request that is not in preview mode does not; and the props
\* that decide it stay as built while the page is mounted.
C24_PreviewLink ==
  /\ []((Built /\ ~props.raised) => (PreviewLinkShown(props) <=> ctx.preview))
  /\ [][(phase # "none" /\ phase' = "mounted") => props' = props]_vars

C24_Witness ==
  /\ Built /\ ctx.preview
  /\ props.hasError /\ ~props.isPreview
  /\ PreviewLinkShown(props)

\* C25: getStaticProps never writes to or deletes from the bucket: a call
\* leaves the bucket as it was; and in preview mode the only key it reads is
\* "<snapshotId>.json" for the snapshotId of its context, and none otherwise.
C25_ReadOnly ==
  [][(\E c \in Contexts : GetStaticProps(c.preview, c.previewData)) =>
       /\ store' = store
       /\ (ctx'.preview /\ ctx'.previewData.t = "object") =>
            s3Reads' =
              << (IF Get(ctx'.previewData.v, <<"snapshotId">>).t = "string"
                  THEN Get(ctx'.previewData.v, <<"snapshotId">>).v
                  ELSE <<"undefined">>) \o <<".json">> >>
       /\ ~(ctx'.preview /\ ctx'.previewData.t = "object") => s3Reads' = <<>>]_vars

C25_Witness ==
  /\ Built /\ ctx.previewData = PreviewData(<<"bad">>)
  /\ s3Reads = << <<"bad", ".json">> >>
  /\ store[<<"abc123", ".json">>].saved
  /\ store[<<"bad", ".json">>].body = GarbledBody

\* The object under key is a snapshot saved with no edits
SavedEmpty(key) ==
  /\ store[key].saved
  /\ store[key].body = <<"[", "]">>
  /\ store[key].edits = <<>>

\* C26: on a page rendered with hasError = true Content is not rendered, the
\* edit toggle and, in edit mode, the share action stay available, and a
\* share() there collects nothing and POSTs an empty array, which the
\* endpoint saves as an empty snapshot.
C26_ErrorPageShare ==
  (mounted /\ props.hasError) =>
    /\ Document(props, isEdit) = <<>>
    /\ NoMicrotask => ENABLED toggleEdit
    /\ (NoMicrotask /\ isEdit /\ ~hasSaveRequest) => ENABLED ShareSend(<<>>)
    /\ \A i \in Requests :
         /\ inflight[i].persistContents = <<>>
         /\ inflight[i].body = <<"[", "]">>
         /\ (Answered2xx(i) /\ inflight[i].resp.body \in {SaveResponse(id) : id \in GenIds}) =>
              SavedEmpty(SnapshotIdIn(JSONparse(inflight[i].resp.body)).v \o <<".json">>)

C26_Witness ==
  /\ mounted /\ props.hasError /\ isEdit
  /\ Len(inflight) = 1 /\ inflight[1].stage = "responded"
  /\ inflight[1].resp = Http(TRUE, SaveResponse(<<"k2">>))
  /\ store[<<"k2", ".json">>].body = <<"[", "]">>
====
